---- MODULE Spec2Model ----
(***************************************************************************)
(* Model of src/App.jsx, the NMS straight-line planner: the React state of *)
(* App (radius, start, end, numCheckpoints, stateKey, done), the derived   *)
(* values (linePoints, progress, currentPoint), the three passive effects  *)
(* (reconcile, load, save), localStorage, and the JSON import/export.      *)
(*                                                                         *)
(* JavaScript numbers are binary floating point.  They are modelled as a   *)
(* scaled-down binary format: a finite number is an integer count of       *)
(* units of 2^-FracBits with at most MantBits significant bits, every      *)
(* arithmetic result is rounded to nearest, ties to even, and the          *)
(* non-finite values are the sentinels PosInf, NegInf and NaN.             *)
(***************************************************************************)
EXTENDS Integers, Sequences, FiniteSets, TLC

\* ------------------------------------------------------------------------
\* Bounds of the model
\* ------------------------------------------------------------------------
MantBits == 8          \* significant bits of a number (53 in a JS double)
FracBits == MantBits   \* the unit is 2^-FracBits
MaxCount == 2          \* largest checkpoint count typed or imported
MaxRow == 1            \* checklist rows 0..MaxRow are the ones clicked
MaxReads == 2          \* file reads in flight at once
MaxEvents == 4         \* user events handled in one session

Unit == 2^FracBits
Num(c) == c * Unit     \* the number c, in units

\* ------------------------------------------------------------------------
\* JavaScript values
\* ------------------------------------------------------------------------
PosInf == 2^30         \* Infinity
NegInf == -(2^30)      \* -Infinity
NaN == 2^30 + 1        \* NaN
Null == 2^30 + 2       \* null in the place of a number
Absent == 2^30 + 3     \* a field the object does not have (undefined)

IsFinite(x) == x > NegInf /\ x < PosInf

\* ToNumber: null coerces to 0, undefined to NaN
ToNumber(x) == IF x = Null THEN 0 ELSE IF x = Absent THEN NaN ELSE x

\* n/d (n >= 0, d > 0) rounded to the nearest integer, ties to even
RoundNearestEven(n, d) ==
  LET q == n \div d
      r == n % d
  IN IF 2 * r < d THEN q
     ELSE IF 2 * r > d THEN q + 1
     ELSE IF q % 2 = 0 THEN q ELSE q + 1

RECURSIVE Exponent(_, _, _)
\* the least e >= 0 with n/d < 2^(MantBits + e)
Exponent(n, d, e) ==
  IF n < (2^MantBits) * (2^e) * d THEN e ELSE Exponent(n, d, e + 1)

\* the representable number nearest to num/den units (den > 0)
Round(num, den) ==
  LET mag == IF num < 0 THEN -num ELSE num
      e == Exponent(mag, den, 0)
      m == RoundNearestEven(mag, den * (2^e)) * (2^e)
  IN IF num < 0 THEN -m ELSE m

Neg(x) == IF x = NaN THEN NaN ELSE IF x = PosInf THEN NegInf
          ELSE IF x = NegInf THEN PosInf ELSE -x

Sign(x) == IF x = PosInf THEN 1 ELSE IF x = NegInf THEN -1
           ELSE IF x > 0 THEN 1 ELSE IF x < 0 THEN -1 ELSE 0

\* a + b
Add(a0, b0) ==
  LET a == ToNumber(a0)
      b == ToNumber(b0)
  IN IF a = NaN \/ b = NaN THEN NaN
     ELSE IF ~IsFinite(a) THEN (IF ~IsFinite(b) /\ b # a THEN NaN ELSE a)
     ELSE IF ~IsFinite(b) THEN b
     ELSE Round(a + b, 1)

\* a - b
Sub(a0, b0) == Add(a0, Neg(ToNumber(b0)))

\* a * b
Mul(a0, b0) ==
  LET a == ToNumber(a0)
      b == ToNumber(b0)
  IN IF a = NaN \/ b = NaN THEN NaN
     ELSE IF ~IsFinite(a) \/ ~IsFinite(b)
          THEN (IF Sign(a) * Sign(b) = 0 THEN NaN
                ELSE IF Sign(a) * Sign(b) > 0 THEN PosInf ELSE NegInf)
     ELSE Round(a * b, Unit)

\* i / n for the integers i (a loop counter) and n (a count)
Div(i, n) ==
  IF n = 0 THEN (IF i = 0 THEN NaN ELSE IF i > 0 THEN PosInf ELSE NegInf)
  ELSE IF n > 0 THEN Round(i * Unit, n)
  ELSE Round(-(i * Unit), -n)

\* ------------------------------------------------------------------------
\* Utility functions
\* ------------------------------------------------------------------------
lerp(a, b, t) == Add(a, Mul(Sub(b, a), t))

lerpVec(a, b, t) == <<lerp(a[1], b[1], t), lerp(a[2], b[2], t), lerp(a[3], b[3], t)>>

\* the checkpoint of index i: its position and its parameter t
Point(s, e, n, i) ==
  LET t == Div(i, n)
  IN [pos |-> lerpVec(s, e, t), t |-> t]

\* the number of iterations of "for (let i = 0; i <= numCheckpoints; i++)",
\* which is linePoints.length
LineLength(n) == IF n < 0 THEN 0 ELSE n + 1

\* linePoints: one pts.push per iteration
LinePoints(s, e, n) == [k \in 1..LineLength(n) |-> Point(s, e, n, k - 1)]

\* linePoints[i]; a record with t = Absent stands for undefined
Undefined == [pos |-> <<>>, t |-> Absent]
LinePointAt(s, e, n, i) ==
  IF i >= 0 /\ i < LineLength(n) THEN Point(s, e, n, i) ELSE Undefined

\* ------------------------------------------------------------------------
\* Text of the coordinate inputs, parseFloat and Array.prototype.join
\* ------------------------------------------------------------------------
\* a text is the sequence of its comma-separated parts
Tokens == {"0", "1", "400", "50", "-300", "Infinity", "NaN", "abc", "", "1x"}

\* parseFloat(s.trim()): the number the text begins with, NaN when it
\* begins with none
parseFloat(tok) ==
  CASE tok = "0" -> 0
    [] tok = "1" -> Num(1)
    [] tok = "1x" -> Num(1)
    [] tok = "400" -> Num(400)
    [] tok = "50" -> Num(50)
    [] tok = "-300" -> Num(-300)
    [] tok = "Infinity" -> PosInf
    [] OTHER -> NaN

\* String(x) as join writes an element: null and undefined give ""
NumberToString(x) ==
  IF x = Null \/ x = Absent THEN ""
  ELSE IF x = NaN THEN "NaN"
  ELSE CHOOSE tok \in Tokens \ {"1x"} : parseFloat(tok) = x

\* start.join(", ")
Join(v) == [k \in 1..Len(v) |-> NumberToString(v[k])]

\* parseVec3: the parts, or <<>> for null
parseVec3(str) ==
  LET parts == [k \in 1..Len(str) |-> parseFloat(str[k])]
  IN IF Len(parts) # 3 \/ \E k \in 1..Len(parts) : parts[k] = NaN
     THEN <<>> ELSE parts

\* ------------------------------------------------------------------------
\* JSON text
\* ------------------------------------------------------------------------
\* A text is: not an item at all ("none", getItem gave null), malformed,
\* the literal null, or an object with the fields named in has.  A number
\* in a text is a finite number, the literal null (Null), or a literal too
\* large for a double (PosInf, e.g. 1e999).  A flag in a text is "true",
\* "false" or "null".
AllFields == {"start", "end", "numCheckpoints", "radius", "done"}

EmptyObject ==
  [kind |-> "object", has |-> {}, start |-> <<>>, end |-> <<>>,
   numCheckpoints |-> 0, radius |-> 0, done |-> <<>>]

NoItem == [EmptyObject EXCEPT !.kind = "none"]
Malformed == [EmptyObject EXCEPT !.kind = "malformed"]
NullText == [EmptyObject EXCEPT !.kind = "null"]

\* how JSON.stringify writes a number: the non-finite ones as null
StringifyNumber(x) == IF IsFinite(x) THEN x ELSE Null

\* how JSON.stringify writes an array element of done
StringifyFlag(f) == IF f = "undefined" THEN "null" ELSE f

\* JSON.stringify({ start, end, numCheckpoints, radius, done })
Stringify(s, e, n, r, d) ==
  [kind |-> "object", has |-> AllFields,
   start |-> [k \in 1..Len(s) |-> StringifyNumber(s[k])],
   end |-> [k \in 1..Len(e) |-> StringifyNumber(e[k])],
   numCheckpoints |-> StringifyNumber(n),
   radius |-> StringifyNumber(r),
   done |-> [k \in 1..Len(d) |-> StringifyFlag(d[k])]]

\* JSON.parse throws on this text
ParseThrows(text) == text.kind = "malformed"

\* obj.f is truthy: the field is there and is not null, 0 or NaN
Truthy(obj, f) ==
  /\ obj.kind = "object"
  /\ f \in obj.has
  /\ f \in {"numCheckpoints", "radius"} => obj[f] \notin {0, Null, NaN}

\* obj.f is neither null nor undefined
Defined(obj, f) ==
  /\ obj.kind = "object"
  /\ f \in obj.has
  /\ f \in {"numCheckpoints", "radius"} => obj[f] # Null

\* ------------------------------------------------------------------------
\* Inputs offered by the environment
\* ------------------------------------------------------------------------
DefaultKey == "nms-line-state-v1"
Keys == {DefaultKey, "plan-b"}

DefaultStart == <<0, 0, 0>>
DefaultEnd == <<Num(400), Num(50), Num(-300)>>
DefaultCount == 50
\* (another default radius)
DefaultRadiusOne == Num(1)

DefaultRadius == Num(500)

\* what the user types in the Start and End fields
StartTexts == {<<"1", "0", "0">>, <<"Infinity", "0", "0">>,
               <<"abc", "0", "0">>, <<"1", "0">>, <<"1x", "0", "0">>}
EndTexts == {<<"1", "1", "1">>, <<"1", "", "1">>}

\* what the user types in the number inputs: a number, or NaN for a text
\* parseInt / parseFloat does not read
CountInputs == {NaN} \cup (-1..MaxCount)
RadiusInputs == {NaN, 0, Num(1)}

Object(h, s, e, n, r, d) ==
  [kind |-> "object", has |-> h, start |-> s, end |-> e,
   numCheckpoints |-> n, radius |-> r, done |-> d]

\* the files the user picks for import
ImportTexts ==
  { Malformed,
    NullText,
    \* {"start":[0,0,0]}
    Object({"start"}, DefaultStart, <<>>, 0, 0, <<>>),
    \* {"start":[1,0,0],"end":[1,1,1]}
    Object({"start", "end"}, <<Num(1), 0, 0>>, <<Num(1), Num(1), Num(1)>>, 0, 0, <<>>),
    \* {"start":[0,0,0],"end":[1,1,1],"numCheckpoints":-1,"radius":0}
    Object({"start", "end", "numCheckpoints", "radius"},
           DefaultStart, <<Num(1), Num(1), Num(1)>>, -1, 0, <<>>),
    \* a full document whose done is longer than its checkpoint sequence
    Object(AllFields, DefaultStart, DefaultEnd, 1, Num(1),
           <<"true", "true", "true", "false">>),
    \* a full document whose done fits its checkpoint sequence
    Object(AllFields, DefaultStart, DefaultEnd, 2, DefaultRadius,
           <<"true", "false", "true">>) }

\* what localStorage holds when the app starts
InitialStorages ==
  { [k \in Keys |-> NoItem],
    [k \in Keys |->
       IF k = DefaultKey THEN Malformed
       \* {"start":[1,0,0],"end":[1,1,1],"numCheckpoints":1}
       ELSE Object({"start", "end", "numCheckpoints"},
                   <<Num(1), 0, 0>>, <<Num(1), Num(1), Num(1)>>, 1, 0, <<>>)],
    [k \in Keys |->
       IF k = DefaultKey
       THEN Object(AllFields, DefaultStart, DefaultEnd, 2, DefaultRadius,
                   <<"true", "false", "false">>)
       \* {"start":[1,0,0],"end":[1,1,1]}
       ELSE Object({"start", "end"},
                   <<Num(1), 0, 0>>, <<Num(1), Num(1), Num(1)>>, 0, 0, <<>>)] }

\* ------------------------------------------------------------------------
\* State
\* ------------------------------------------------------------------------
VARIABLES
  radius,          \* useState(500)
  start,           \* useState([0, 0, 0])
  end,             \* useState([400, 50, -300])
  numCheckpoints,  \* useState(50)
  stateKey,        \* useState("nms-line-state-v1")
  done,            \* useState([]): the flags "true", "false", "undefined", "null"
  storage,         \* localStorage: the text under each key
  startText,       \* the text in the Start input (uncontrolled)
  endText,         \* the text in the End input (uncontrolled)
  reads,           \* the texts of the FileReader reads in flight
  pending,         \* a render is committed and its effects have not run
  depLen,          \* linePoints.length at the previous run of the effects
  depKey,          \* stateKey at the previous run of the effects
  events,          \* the number of user events handled so far
  last,            \* the last handler that ran, and its input
  notice,          \* the last handler called alert()
  crashed          \* an effect threw: React has unmounted the app

vars == <<radius, start, end, numCheckpoints, stateKey, done, storage,
          startText, endText, reads, pending, depLen, depKey, events, last,
          notice, crashed>>

plan == <<start, end, numCheckpoints, radius, done>>

linePoints == LinePoints(start, end, numCheckpoints)
linePointsLength == LineLength(numCheckpoints)

\* no effect is waiting to run
Quiescent == ~pending

\* a handler, the text it read (NoItem when none) and its number (0 when none)
Handler(op, text, n) == [op |-> op, text |-> text, n |-> n]

Init ==
  /\ radius = DefaultRadius
  /\ start = DefaultStart
  /\ end = DefaultEnd
  /\ numCheckpoints = DefaultCount
  /\ stateKey = DefaultKey
  /\ done = <<>>
  /\ storage \in InitialStorages
  /\ startText = Join(DefaultStart)
  /\ endText = Join(DefaultEnd)
  /\ reads = {}
  /\ pending = TRUE
  /\ depLen = -1
  /\ depKey = ""
  /\ events = 0
  /\ last = Handler("mount", NoItem, 0)
  /\ notice = FALSE
  /\ crashed = FALSE

\* ------------------------------------------------------------------------
\* Derived values
\* ------------------------------------------------------------------------
\* done.filter(Boolean).length
completedCount == Cardinality({k \in 1..Len(done) : done[k] = "true"})

\* linePoints.length > 1 ? (completedCount / (linePoints.length - 1)) * 100 : 0
progress ==
  IF linePointsLength > 1
  THEN Mul(Div(completedCount, linePointsLength - 1), Num(100))
  ELSE 0

\* done.findIndex((v) => !v): the 0-based index, or -1
findIndexNotDone(d) ==
  IF \E k \in 1..Len(d) : d[k] # "true"
  THEN (CHOOSE k \in 1..Len(d) :
          d[k] # "true" /\ \A j \in 1..(k - 1) : d[j] = "true") - 1
  ELSE -1

\* the index currentPoint reads linePoints at
currentIndex ==
  LET idx == findIndexNotDone(done)
  IN IF idx = -1 THEN linePointsLength - 1 ELSE idx

currentPoint == LinePointAt(start, end, numCheckpoints, currentIndex)

\* ------------------------------------------------------------------------
\* ProgressTracker
\* ------------------------------------------------------------------------
\* (a reconcile that fills a fresh array and copies nothing)
ReconcileNoCopy(prev, n) == [k \in 1..n |-> "false"]

\* the updater of the reconcile effect
Reconcile(prev, n) ==
  [k \in 1..n |-> IF k <= Len(prev) THEN prev[k] ELSE "false"]

\* the updater of the checkbox: copy = [...d]; copy[i] = checked
SetFlag(d, i, checked) ==
  LET len == IF i + 1 > Len(d) THEN i + 1 ELSE Len(d)
  IN [k \in 1..len |-> IF k = i + 1 THEN checked
                       ELSE IF k <= Len(d) THEN d[k] ELSE "undefined"]

\* checked={!!done[i]}
Checked(d, i) == i < Len(d) /\ d[i + 1] = "true"

\* ------------------------------------------------------------------------
\* Import and load
\* ------------------------------------------------------------------------
\* the try block of reader.onload throws: JSON.parse fails, or obj is null
ImportThrows(text) == ParseThrows(text) \/ text.kind = "null"

\* (an import that tests obj.start only)
ImportAcceptsStartOnly(text) == ~ImportThrows(text) /\ Truthy(text, "start")

\* if (obj.start && obj.end)
ImportAccepts(text) ==
  ~ImportThrows(text) /\ Truthy(text, "start") /\ Truthy(text, "end")

\* (an import without setRadius)
ImportedPlanKeepsRadius(obj) ==
  <<obj.start,
    obj.end,
    IF Truthy(obj, "numCheckpoints") THEN obj.numCheckpoints ELSE DefaultCount,
    radius,
    IF "done" \in obj.has THEN obj.done ELSE <<>> >>

\* the plan the five setters of handleImportJSON leave
ImportedPlan(obj) ==
  <<obj.start,
    obj.end,
    IF Truthy(obj, "numCheckpoints") THEN obj.numCheckpoints ELSE DefaultCount,
    IF Truthy(obj, "radius") THEN obj.radius ELSE DefaultRadius,
    IF "done" \in obj.has THEN obj.done ELSE <<>> >>

\* (a load that tests obj.start and obj.end only)
LoadAcceptsWithoutCount(saved) ==
  /\ saved.kind = "object"
  /\ Truthy(saved, "start")
  /\ Truthy(saved, "end")

\* if (saved) { obj = JSON.parse(saved); if (obj.start && obj.end && obj.numCheckpoints)
LoadAccepts(saved) ==
  /\ saved.kind = "object"
  /\ Truthy(saved, "start")
  /\ Truthy(saved, "end")
  /\ Truthy(saved, "numCheckpoints")

\* the plan the five setters of the load effect leave
LoadedPlan(obj) ==
  <<obj.start,
    obj.end,
    obj.numCheckpoints,
    IF Defined(obj, "radius") THEN obj.radius ELSE DefaultRadius,
    IF "done" \in obj.has THEN obj.done ELSE <<>> >>

\* (a save effect whose data leaves done out)
SaveTextNoDone(s, e, n, r, d) == Stringify(s, e, n, r, <<>>)

\* JSON.stringify(data) of the save effect
SaveText(s, e, n, r, d) == Stringify(s, e, n, r, d)

\* JSON.stringify(data, null, 2) of handleExportJSON
ExportJSON == Stringify(start, end, numCheckpoints, radius, done)

\* ------------------------------------------------------------------------
\* Event handlers
\* ------------------------------------------------------------------------
\* a user event is handled once the effects of the last commit have run
UserEvent(op, text, n) ==
  /\ Quiescent
  /\ events < MaxEvents
  /\ events' = events + 1
  /\ last' = Handler(op, text, n)
  /\ notice' = FALSE
  /\ UNCHANGED crashed

\* Math.max(1, parseInt(e.target.value) || 1)
ClampCount(raw) ==
  LET n == IF raw = NaN \/ raw = 0 THEN 1 ELSE raw
  IN IF n < 1 THEN 1 ELSE n

\* parseFloat(e.target.value) || 500
RadiusOf(raw) == IF raw = NaN \/ raw = 0 THEN DefaultRadius ELSE raw

\* onChange of the "# of Checkpoints" input
SetNumCheckpoints(raw) ==
  /\ UserEvent("SetNumCheckpoints", NoItem, raw)
  /\ ClampCount(raw) # numCheckpoints
  /\ numCheckpoints' = ClampCount(raw)
  /\ pending' = TRUE
  /\ UNCHANGED <<radius, start, end, stateKey, done, storage, startText,
                 endText, reads, depLen, depKey>>

\* onChange of the "Galaxy Radius" input
SetRadius(raw) ==
  /\ UserEvent("SetRadius", NoItem, raw)
  /\ RadiusOf(raw) # radius
  /\ radius' = RadiusOf(raw)
  /\ pending' = TRUE
  /\ UNCHANGED <<start, end, numCheckpoints, stateKey, done, storage,
                 startText, endText, reads, depLen, depKey>>

\* onChange of the "Local Save Key" input; the text is the one under the
\* new key, which the load effect is about to read
SetStateKey(k) ==
  /\ UserEvent("SetStateKey", storage[k], 0)
  /\ k # stateKey
  /\ stateKey' = k
  /\ pending' = TRUE
  /\ UNCHANGED <<radius, start, end, numCheckpoints, done, storage,
                 startText, endText, reads, depLen, depKey>>

\* (an onBlur of the Start input that also clears the progress)
BlurStartClearsDone(text) ==
  /\ UserEvent("BlurStart", NoItem, 0)
  /\ LET v == parseVec3(text)
     IN IF v # <<>>
        THEN /\ start' = v
             /\ done' = <<>>
             /\ pending' = TRUE
             /\ startText' = text
        ELSE /\ startText' = Join(start)
             /\ UNCHANGED <<start, done, pending>>
  /\ UNCHANGED <<radius, end, numCheckpoints, stateKey, storage,
                 endText, reads, depLen, depKey>>

\* onBlur of the Start input, the field holding text: the text the user
\* typed since the last blur, or the field's own text when nothing was typed
BlurStart(text) ==
  /\ UserEvent("BlurStart", NoItem, 0)
  /\ LET v == parseVec3(text)
     IN IF v # <<>>
        THEN /\ start' = v
             /\ pending' = TRUE
             /\ startText' = text
        ELSE /\ startText' = Join(start)
             /\ UNCHANGED <<start, pending>>
  /\ UNCHANGED <<radius, end, numCheckpoints, stateKey, done, storage,
                 endText, reads, depLen, depKey>>

\* onBlur of the End input
BlurEnd(text) ==
  /\ UserEvent("BlurEnd", NoItem, 0)
  /\ LET v == parseVec3(text)
     IN IF v # <<>>
        THEN /\ end' = v
             /\ pending' = TRUE
             /\ endText' = text
        ELSE /\ endText' = Join(end)
             /\ UNCHANGED <<end, pending>>
  /\ UNCHANGED <<radius, start, numCheckpoints, stateKey, done, storage,
                 startText, reads, depLen, depKey>>

\* onChange of the checkbox of row i
Toggle(i) ==
  /\ UserEvent("Toggle", NoItem, i)
  /\ i < linePointsLength
  /\ done' = SetFlag(done, i, IF Checked(done, i) THEN "false" ELSE "true")
  /\ pending' = TRUE
  /\ UNCHANGED <<radius, start, end, numCheckpoints, stateKey, storage,
                 startText, endText, reads, depLen, depKey>>

\* handleImportJSON: reader.readAsText(file)
ImportStart(text) ==
  /\ UserEvent("ImportStart", text, 0)
  /\ Cardinality(reads) < MaxReads
  /\ text \notin reads
  /\ reads' = reads \cup {text}
  /\ UNCHANGED <<radius, start, end, numCheckpoints, stateKey, done, storage,
                 startText, endText, pending, depLen, depKey>>

\* reader.onload
ImportComplete(text) ==
  /\ Quiescent
  /\ text \in reads
  /\ reads' = reads \ {text}
  /\ last' = Handler("ImportComplete", text, 0)
  /\ notice' = ImportThrows(text)
  /\ IF ImportAccepts(text)
     THEN /\ start' = ImportedPlan(text)[1]
          /\ end' = ImportedPlan(text)[2]
          /\ numCheckpoints' = ImportedPlan(text)[3]
          /\ radius' = ImportedPlan(text)[4]
          /\ done' = ImportedPlan(text)[5]
          /\ pending' = TRUE
     ELSE UNCHANGED <<start, end, numCheckpoints, radius, done, pending>>
  /\ UNCHANGED <<stateKey, storage, startText, endText, depLen, depKey, events,
                 crashed>>

\* ------------------------------------------------------------------------
\* Effects
\* ------------------------------------------------------------------------
\* the dependencies [linePoints.length] of the reconcile effect changed
ReconcileRuns(n, dep) == n # dep

\* (a save under a fixed key)
setItemDefaultKey(store, key, text) == [store EXCEPT ![DefaultKey] = text]

\* localStorage.setItem(stateKey, text)
setItem(store, key, text) == [store EXCEPT ![key] = text]

\* One pass of the passive effects of the committed render, in the order
\* of their declaration: reconcile (when linePoints.length changed), load
\* (when stateKey changed), save (one of its dependencies changed, as in
\* every commit); then the queued updates are applied and committed.
RunEffects ==
  /\ pending
  /\ ~crashed
  /\ LET n == linePointsLength
         reconciles == ReconcileRuns(n, depLen)
         saved == storage[stateKey]
         loads == stateKey # depKey /\ LoadAccepts(saved)
         reconciled == IF reconciles THEN Reconcile(done, n) ELSE done
     IN /\ IF loads
           THEN /\ start' = LoadedPlan(saved)[1]
                /\ end' = LoadedPlan(saved)[2]
                /\ numCheckpoints' = LoadedPlan(saved)[3]
                /\ radius' = LoadedPlan(saved)[4]
                /\ done' = LoadedPlan(saved)[5]
           ELSE /\ done' = reconciled
                /\ UNCHANGED <<start, end, numCheckpoints, radius>>
        /\ storage' = setItem(storage, stateKey,
                              SaveText(start, end, numCheckpoints, radius, done))
        /\ pending' = (reconciles \/ loads)
        /\ depLen' = n
        /\ depKey' = stateKey
  /\ UNCHANGED <<stateKey, startText, endText, reads, events, last, notice,
                 crashed>>

\* The pass of the effects in which localStorage.setItem throws (the quota
\* is exceeded, or the store refuses the write): the save effect has no
\* try, the error leaves the effect and React unmounts the app.
SaveThrows ==
  /\ pending
  /\ ~crashed
  /\ crashed' = TRUE
  /\ UNCHANGED <<radius, start, end, numCheckpoints, stateKey, done, storage,
                 startText, endText, reads, pending, depLen, depKey, events,
                 last, notice>>

Next ==
  \/ \E raw \in CountInputs : SetNumCheckpoints(raw)
  \/ \E raw \in RadiusInputs : SetRadius(raw)
  \/ \E k \in Keys : SetStateKey(k)
  \/ \E text \in StartTexts \cup {startText} : BlurStart(text)
  \/ \E text \in EndTexts \cup {endText} : BlurEnd(text)
  \/ \E i \in 0..MaxRow : Toggle(i)
  \/ \E text \in ImportTexts : ImportStart(text)
  \/ \E text \in reads : ImportComplete(text)
  \/ RunEffects
  \/ SaveThrows

Spec == Init /\ [][Next]_vars

\* the app used through its form only: no file is ever imported
EditNext ==
  \/ \E raw \in CountInputs : SetNumCheckpoints(raw)
  \/ \E raw \in RadiusInputs : SetRadius(raw)
  \/ \E k \in Keys : SetStateKey(k)
  \/ \E text \in StartTexts \cup {startText} : BlurStart(text)
  \/ \E text \in EndTexts \cup {endText} : BlurEnd(text)
  \/ \E i \in 0..MaxRow : Toggle(i)
  \/ RunEffects
  \/ SaveThrows

EditSpec == Init /\ [][EditNext]_vars

\* ------------------------------------------------------------------------
\* PathModel alone: linePoints as a function of start, end and the count
\* ------------------------------------------------------------------------
MaxCoord == 2^MantBits + 2   \* a coordinate one bit wider than the mantissa
PathCoords == {0, Num(1), Num(-3), Num(MaxCoord)}
PathVectors == {<<x, y, z>> : x \in PathCoords, y \in {0, Num(1)}, z \in {0, Num(MaxCoord)}}

PathInit ==
  /\ start \in PathVectors
  /\ end \in PathVectors
  /\ numCheckpoints \in 1..MaxCount
  /\ radius = DefaultRadius
  /\ stateKey = DefaultKey
  /\ done = Reconcile(<<>>, LineLength(numCheckpoints))
  /\ storage = [k \in Keys |-> NoItem]
  /\ startText = <<>>
  /\ endText = <<>>
  /\ reads = {}
  /\ pending = FALSE
  /\ depLen = LineLength(numCheckpoints)
  /\ depKey = DefaultKey
  /\ events = 0
  /\ last = Handler("mount", NoItem, 0)
  /\ notice = FALSE
  /\ crashed = FALSE

\* useMemo recomputes linePoints when start, end or numCheckpoints change
Regenerate(s, e, n) ==
  /\ <<s, e, n>> # <<start, end, numCheckpoints>>
  /\ start' = s
  /\ end' = e
  /\ numCheckpoints' = n
  /\ done' = Reconcile(done, LineLength(n))
  /\ depLen' = LineLength(n)
  /\ UNCHANGED <<radius, stateKey, storage, startText, endText, reads,
                 pending, depKey, events, last, notice, crashed>>

PathNext == \E s \in PathVectors, e \in PathVectors, n \in 1..MaxCount : Regenerate(s, e, n)

PathSpec == PathInit /\ [][PathNext]_vars

\* ------------------------------------------------------------------------
\* Claims
\* ------------------------------------------------------------------------
\* C1: in every quiescent state done has the length of linePoints.
C1_DoneLengthIsLineLength == Quiescent => Len(done) = linePointsLength

\* C2: progress lies in [0, 100] and is 0 when linePoints has at most one
\* element; stated of the states whose effects have run, the ones that last.
C2_ProgressInRange ==
  Quiescent =>
    /\ progress >= 0
    /\ progress <= Num(100)
    /\ linePointsLength <= 1 => progress = 0

\* C3: numCheckpoints is at least 1 in every state.
C3_CountAtLeastOne == numCheckpoints >= 1

\* C4: every toggle of a rendered row i writes done at an index below
\* done.length.
C4_ToggleWithinDone == [][\A i \in 0..MaxRow : Toggle(i) => i < Len(done)]_vars

\* a text that is not well-formed, or whose document has no start or no end
LacksStartOrEnd(text) ==
  \/ text.kind # "object"
  \/ "start" \notin text.has
  \/ "end" \notin text.has

\* C5: the completion of an import whose text is not well-formed or lacks
\* start or end leaves start, end, numCheckpoints, radius and done unchanged.
C5_RejectedImportChangesNothing ==
  [][\A text \in ImportTexts :
       (ImportComplete(text) /\ LacksStartOrEnd(text)) => plan' = plan]_vars

\* C5 witness: an import of a document without end has completed on a plan
\* that is not the default one
C5_Witness ==
  /\ last.op = "ImportComplete"
  /\ last.text.kind = "object"
  /\ "end" \notin last.text.has
  /\ numCheckpoints # DefaultCount

\* C6: in every quiescent state the text stored under the current key is
\* the serialization of the current start, end, numCheckpoints, radius, done.
C6_StoredIsCurrentPlan ==
  Quiescent => storage[stateKey] = Stringify(start, end, numCheckpoints, radius, done)

\* C6 witness: the effects have settled after a checkbox was ticked
C6_Witness ==
  /\ Quiescent
  /\ last.op = "Toggle"
  /\ \E k \in 1..Len(done) : done[k] = "true"
  /\ storage[stateKey].done = done

\* C7: in every quiescent state, importing the exported text gives back
\* the same start, end, numCheckpoints, radius and done.
C7_ExportImportRoundTrip ==
  Quiescent => ImportAccepts(ExportJSON) /\ ImportedPlan(ExportJSON) = plan

\* C8: currentPoint is an element of linePoints; it is the one of the
\* lowest index whose flag is not true, and the last one when every flag is
\* true (the flags are read where done has one flag per checkpoint); stated
\* of the states whose effects have run, the ones that last.
C8_CurrentIsFirstNotDone ==
  LET notDone == {i \in 0..(linePointsLength - 1) : ~Checked(done, i)}
      expected == IF notDone = {} THEN linePointsLength - 1
                  ELSE CHOOSE i \in notDone : \A j \in notDone : i <= j
  IN Quiescent =>
       /\ currentPoint # Undefined
       /\ Len(done) = linePointsLength => currentIndex = expected

\* C9: when the reconcile effect runs for a new length n, the new done has
\* length n, equals the old done below min(old length, n) and is false from
\* the old length on; reconciling to the same length changes nothing.
C9_ReconcileKeepsPrefix ==
  /\ [][(RunEffects /\ linePointsLength # depLen
           /\ ~(stateKey # depKey /\ LoadAccepts(storage[stateKey])))
        => /\ Len(done') = linePointsLength
           /\ \A k \in 1..Len(done') :
                done'[k] = IF k <= Len(done) THEN done[k] ELSE "false"]_vars
  /\ [](Reconcile(done, Len(done)) = done)

\* C9 witness: the count was changed after a row was ticked, the effects
\* have settled and the tick is still there
C9_Witness ==
  /\ Quiescent
  /\ last.op = "SetNumCheckpoints"
  /\ Len(done) = linePointsLength
  /\ \E k \in 1..Len(done) : done[k] = "true"

\* C10: for finite start and end and a count >= 1, linePoints has count + 1
\* elements, the first is at start, the last is at end, and t rises strictly
\* from 0 to 1.
C10_EndpointsExact ==
  LET pts == linePoints
      n == numCheckpoints
  IN (n >= 1 /\ \A k \in 1..3 : IsFinite(start[k]) /\ IsFinite(end[k]))
     => /\ Len(pts) = n + 1
        /\ pts[1].pos = start
        /\ pts[n + 1].pos = end
        /\ pts[1].t = 0
        /\ pts[n + 1].t = Num(1)
        /\ \A k \in 1..n : pts[k].t < pts[k + 1].t

\* a stored text that is absent, is not well-formed, or whose document has
\* no start, no end or no numCheckpoints
NoUsableState(text) ==
  \/ text.kind # "object"
  \/ "start" \notin text.has
  \/ "end" \notin text.has
  \/ "numCheckpoints" \notin text.has

\* the load effect runs in this pass of the effects (its key changed)
LoadsIn(pass) == pass /\ stateKey # depKey

\* C11: a load from a key whose text is absent, not well-formed, or without
\* start, end or numCheckpoints throws nothing and sets no field: start,
\* end, numCheckpoints and radius keep their values, and done changes only
\* as the reconcile effect of the same pass changes it.
C11_UnusableLoadAppliesNothing ==
  [][(LoadsIn(RunEffects) /\ NoUsableState(storage[stateKey]))
     => /\ start' = start
        /\ end' = end
        /\ numCheckpoints' = numCheckpoints
        /\ radius' = radius
        /\ done' = IF linePointsLength # depLen
                   THEN Reconcile(done, linePointsLength) ELSE done
        /\ ~crashed']_vars

\* C11 witness: the key was switched to one whose document had no
\* numCheckpoints, the effects have settled, and the plan is still the
\* edited one, not the stored one
C11_Witness ==
  /\ Quiescent
  /\ last.op = "SetStateKey"
  /\ last.text.kind = "object"
  /\ "numCheckpoints" \notin last.text.has
  /\ start # last.text.start

\* no flag of d is true
NoTrueFlag(d) == \A k \in 1..Len(d) : d[k] # "true"

\* radius 500, 50 checkpoints, start (0,0,0), end (400,50,-300), nothing done
IsDefaultPlan(s, e, n, r, d) ==
  /\ s = <<0, 0, 0>>
  /\ e = <<Num(400), Num(50), Num(-300)>>
  /\ n = 50
  /\ r = Num(500)
  /\ NoTrueFlag(d)

\* C12 as stated: after every load that finds no usable state, at startup
\* or after a switch of the key, the plan is the default plan.
C12_DefaultsAfterEveryUnusableLoad ==
  [][(LoadsIn(RunEffects) /\ NoUsableState(storage[stateKey]))
     => IsDefaultPlan(start', end', numCheckpoints', radius', done')]_vars

\* C12 amended: the load at startup that finds no usable state leaves the
\* default plan; a load after a switch of the key that finds no usable
\* state leaves the plan as it was.
C12_DefaultsAtStartupOnly ==
  [][(LoadsIn(RunEffects) /\ NoUsableState(storage[stateKey]))
     => IF depKey = ""
        THEN IsDefaultPlan(start', end', numCheckpoints', radius', done')
        ELSE plan' = plan]_vars

\* C12 witness: the key was switched to one with no item, the effects have
\* settled, the plan is not the default one and is now stored under the
\* new key
C12_Witness ==
  /\ Quiescent
  /\ last.op = "SetStateKey"
  /\ last.text = NoItem
  /\ ~IsDefaultPlan(start, end, numCheckpoints, radius, done)
  /\ storage[stateKey] = Stringify(start, end, numCheckpoints, radius, done)

\* C13 as stated: every import that is rejected, because its text is not
\* well-formed or because its document has no start or no end, calls
\* alert().
C13_RejectedImportAlerts ==
  (last.op = "ImportComplete" /\ LacksStartOrEnd(last.text)) => notice

\* C14 as stated: a save whose write fails is skipped silently, no error
\* state is reached.
C14_FailedSaveIsSilent == ~crashed

\* the fields of a document with start and end, as an import reads them: an
\* absent (or zero) numCheckpoints is 50, an absent (or zero) radius is 500,
\* an absent done is empty
IsPlanOf(text, s, e, n, r, d) ==
  /\ s = text.start
  /\ e = text.end
  /\ n = (IF "numCheckpoints" \in text.has /\ text.numCheckpoints # 0
          THEN text.numCheckpoints ELSE 50)
  /\ r = (IF "radius" \in text.has /\ text.radius # 0
          THEN text.radius ELSE Num(500))
  /\ d = (IF "done" \in text.has THEN text.done ELSE <<>>)

\* C15: the completion of the read of a document with start and end sets
\* the five fields together, to the fields of that document alone, whatever
\* another import or the user left before; while that completion is the
\* last handler, start, end, numCheckpoints and radius stay those of the
\* document (done is reconciled to its count by the effects).
C15_ImportIsAtomicLastWins ==
  /\ [][\A text \in ImportTexts :
          (ImportComplete(text) /\ ~LacksStartOrEnd(text))
          => IsPlanOf(text, start', end', numCheckpoints', radius', done')]_vars
  /\ []((last.op = "ImportComplete" /\ ~LacksStartOrEnd(last.text))
        => \E d \in {done, last.text.done, <<>>} :
             IsPlanOf(last.text, start, end, numCheckpoints, radius, d))

\* C15 witness: two documents with start and end were being read at once,
\* the read of the one with radius 1 has completed, the effects have
\* settled, and the other is still being read
C15_Witness ==
  /\ Quiescent
  /\ last.op = "ImportComplete"
  /\ ~LacksStartOrEnd(last.text)
  /\ radius = Num(1)
  /\ \E other \in reads : ~LacksStartOrEnd(other) /\ other.radius # radius

\* C16: no step changes the text stored under a key other than the current
\* one.
C16_OtherKeysUntouched ==
  [][\A k \in Keys : k # stateKey => storage'[k] = storage[k]]_vars

\* C16 witness: a checkbox was ticked under the second key, the save has
\* run, and the first key still holds its own snapshot
C16_Witness ==
  /\ Quiescent
  /\ last.op = "Toggle"
  /\ stateKey = "plan-b"
  /\ storage[DefaultKey].kind = "object"
  /\ storage[DefaultKey] # storage[stateKey]

\* a part of a coordinate text that is a number from end to end
NumericTokens == {"0", "1", "400", "50", "-300", "Infinity"}

\* a coordinate text that does not have three parts, or has a part that is
\* not a number
BadEntry(text) == Len(text) # 3 \/ \E k \in 1..Len(text) : text[k] \notin NumericTokens

\* C17 as stated: the blur of a Start or End input whose text has a
\* non-numeric part or not exactly three parts changes neither start nor
\* end nor any other field of the plan, the key or the store.
C17_BadEntryRejected ==
  [][/\ \A text \in StartTexts :
          (BlurStart(text) /\ BadEntry(text))
          => UNCHANGED <<start, end, numCheckpoints, radius, done, stateKey, storage>>
     /\ \A text \in EndTexts :
          (BlurEnd(text) /\ BadEntry(text))
          => UNCHANGED <<start, end, numCheckpoints, radius, done, stateKey, storage>>]_vars

\* a stored document with start, end and a count of at least 1
ValidSnapshot(text) ==
  /\ ~NoUsableState(text)
  /\ IsFinite(text.numCheckpoints)
  /\ text.numCheckpoints >= 1

\* C18 as stated: once the effects have settled after a switch to a key
\* that held a valid snapshot S, start, end, numCheckpoints and radius are
\* those of S, done is the done of S reconciled to the new length, and the
\* text under the key is the serialization of that state.
C18_SwitchLoadsSnapshot ==
  (Quiescent /\ last.op = "SetStateKey" /\ ValidSnapshot(last.text))
  => /\ start = last.text.start
     /\ end = last.text.end
     /\ numCheckpoints = last.text.numCheckpoints
     /\ radius = (IF "radius" \in last.text.has THEN last.text.radius ELSE Num(500))
     /\ done = Reconcile(IF "done" \in last.text.has THEN last.text.done ELSE <<>>,
                         linePointsLength)
     /\ storage[stateKey] = Stringify(start, end, numCheckpoints, radius, done)

\* C19: the blur of the Start or End input, and every pass of the effects
\* that follows it, leaves done unchanged.
C19_PathEditKeepsDone ==
  [][last'.op \in {"BlurStart", "BlurEnd"} => done' = done]_vars

\* C19 witness: start was edited on a plan with a ticked row, the effects
\* have settled and the row is still ticked
C19_Witness ==
  /\ Quiescent
  /\ last.op = "BlurStart"
  /\ start = <<Num(1), 0, 0>>
  /\ \E k \in 1..Len(done) : done[k] = "true"

\* C20 as stated: the blur of a Start or End input whose text is the one
\* the input already shows leaves start and end unchanged.
C20_UneditedBlurChangesNothing ==
  [][/\ BlurStart(startText) => UNCHANGED <<start, end>>
     /\ BlurEnd(endText) => UNCHANGED <<start, end>>]_vars

====
